---------------------------- MODULE Spec2Model ----------------------------
(***************************************************************************)
(* A model of DataGenerators/Laboratory/lab_generator.py: the sampler      *)
(* (sample_value), the adjustment engine (apply_sex_age_lifestyle), the    *)
(* panel assembler with its differential reconciliation                    *)
(* (generate_lab_results) and the cohort builder (generate_cohort).        *)
(*                                                                         *)
(* Numbers.  A value, a bound or a count is an integer number of UNITS of  *)
(* 0.002; one hundredth is Cent = 5 units, so no value lies exactly        *)
(* half-way between two hundredths and round(val, 2) never meets a tie.    *)
(* A mean or an sd is an exact rational <<num, den>> of units (den > 0),   *)
(* so a chain of multipliers loses nothing.  None is <<>>; an optional     *)
(* number n is <<n>>.                                                      *)
(*                                                                         *)
(* Random streams.  numpy's global stream and Python's `random` stream are *)
(* each a state in 0..RngMod-1 stepped by a linear congruence; seeding     *)
(* sets the state from the seed, a draw reads the state and steps it.      *)
(***************************************************************************)
EXTENDS Integers, Sequences, FiniteSets, TLC

VARIABLES np_rng,    \* state of numpy's global stream (np.random)
          py_rng,    \* state of Python's global stream (random)
          profiles,  \* the profile document handed to the generator
          call,      \* the operation last invoked, with its arguments
          out        \* what that operation returned or raised

vars == <<np_rng, py_rng, profiles, call, out>>

-----------------------------------------------------------------------------
(* Bounds of the model *)

RngMod == 16

\* the largest total count, in hundredths, the reconciliation is tried on
MaxTotal == 12

\* units per 0.01: the resolution of round(val, 2)
Cent == 5

-----------------------------------------------------------------------------
(* Python values *)

\* the one element of a singleton set.  Only({F(x) : x \in {v}}) is F(v)
\* with v evaluated once: the value a statement assigns, handed on to the
\* statements after it
Only(S) == CHOOSE r \in S : TRUE

None == <<>>
Some(n) == <<n>>
IsNone(x) == x = <<>>
Val(x) == x[1]

\* dict.get(key, default)
Get(d, k, default) == IF k \in DOMAIN d THEN d[k] ELSE default

\* a dict that keeps insertion order: a sequence of <<key, value>>
OKeys(od) == [i \in 1 .. Len(od) |-> od[i][1]]
OHas(od, k) == \E i \in 1 .. Len(od) : od[i][1] = k
OGet(od, k) == od[CHOOSE i \in 1 .. Len(od) : od[i][1] = k][2]
OSet(od, k, v) ==
  IF OHas(od, k)
    THEN [od EXCEPT ![CHOOSE i \in 1 .. Len(od) : od[i][1] = k] = <<k, v>>]
    ELSE Append(od, <<k, v>>)
ODel(od, k) == SelectSeq(od, LAMBDA e : e[1] # k)

\* exact rationals <<num, den>>, den > 0
R(n) == <<n, 1>>
RMul(a, b) == <<a[1] * b[1], a[2] * b[2]>>
RAdd(a, b) == <<a[1] * b[2] + b[1] * a[2], a[2] * b[2]>>
RLt(a, b) == a[1] * b[2] < b[1] * a[2]
RLe(a, b) == a[1] * b[2] <= b[1] * a[2]
RMax(a, b) == IF RLt(a, b) THEN b ELSE a
RSub(a, b) == RAdd(a, <<-b[1], b[2]>>)

\* the unit nearest to the rational a (the model's float resolution)
Quant(a) == (2 * a[1] + a[2]) \div (2 * a[2])

\* round(val, 2) on a value in units: the nearest multiple of Cent
Round2(v) ==
  LET r == v % Cent
  IN  IF 2 * r < Cent THEN v - r ELSE v + (Cent - r)

\* round half to even of num / den (den > 0): np.round on an exact quotient
RoundHalfEven(num, den) ==
  LET q == num \div den
      r == num % den
  IN  IF 2 * r < den THEN q
      ELSE IF 2 * r > den THEN q + 1
      ELSE IF q % 2 = 0 THEN q ELSE q + 1

\* np.round(x, 2) of the rational a of units, as units
RoundToCent(a) == Cent * RoundHalfEven(a[1], a[2] * Cent)

Abs(x) == IF x < 0 THEN -x ELSE x

\* np.clip(val, lo, hi) = minimum(maximum(val, lo), hi)
Clip(v, lo, hi) ==
  LET a == IF v < lo THEN lo ELSE v
  IN  IF a > hi THEN hi ELSE a

-----------------------------------------------------------------------------
(* The random streams *)

RngStates == 0 .. (RngMod - 1)

\* np.random.seed(s) / random.seed(s): the state is a function of the seed
SeedState(s) == (7 * s + 1) % RngMod

\* one step of a stream
Step(s) == (5 * s + 3) % RngMod

\* random._randbelow(n): an index in 0..n-1 read from the state
RandBelow(s, n) == (s * n) \div RngMod

\* a standard normal deviate, in whole standard deviations
ZDev(s) == (s % 5) - 2

\* a positive multiple of the mean (the quantile of a skewed positive law)
PosFactor(s) == << <<1, 4>>, <<1, 2>>, <<1, 1>>, <<2, 1>>, <<4, 1>> >>[(s % 5) + 1]

-----------------------------------------------------------------------------
(* Strings: str.lower() and the `in` substring test, on characters *)

Chars(s) ==
  CASE s = "normal" -> <<"n","o","r","m","a","l">>
    [] s = "Normal" -> <<"N","o","r","m","a","l">>
    [] s = "lognormal" -> <<"l","o","g","n","o","r","m","a","l">>
    [] s = "LOGNORMAL" -> <<"L","O","G","N","O","R","M","A","L">>
    [] s = "uniform" -> <<"u","n","i","f","o","r","m">>
    [] s = "Uniform" -> <<"U","n","i","f","o","r","m">>
    [] s = "gamma" -> <<"g","a","m","m","a">>
    [] s = "GAMMA" -> <<"G","A","M","M","A">>
    [] s = "poisson" -> <<"p","o","i","s","s","o","n">>
    [] s = "normal2" -> <<"n","o","r","m","a","l","2">>
    [] s = "" -> <<>>
    [] s = "FBC" -> <<"F","B","C">>
    [] s = "Full Blood Count" -> <<"F","u","l","l"," ","B","l","o","o","d"," ","C","o","u","n","t">>
    [] s = "LFT" -> <<"L","F","T">>
    [] s = "UEC" -> <<"U","E","C">>
    [] s = "WBC" -> <<"W","B","C">>
    [] s = "Total wbc" -> <<"T","o","t","a","l"," ","w","b","c">>
    [] s = "Hb" -> <<"H","b">>
    [] s = "ALT" -> <<"A","L","T">>
    [] s = "CRP" -> <<"C","R","P">>
    [] s = "differential_props" -> <<"d","i","f","f","e","r","e","n","t","i","a","l","_","p","r","o","p","s">>
    [] s = "Neutrophils (%)" -> <<"N","e","u","t","r","o","p","h","i","l","s"," ","(","%",")">>
    [] s = "Urea" -> <<"U","r","e","a">>
    [] s = "WBC (10^9/L)" -> <<"W","B","C"," ","(","1","0","^","9","/","L",")">>
    [] s = "WBC (x10^9/L)" -> <<"W","B","C"," ","(","x","1","0","^","9","/","L",")">>
    [] s = "Anaemia" -> <<"A","n","a","e","m","i","a">>
    [] s = "Sepsis" -> <<"S","e","p","s","i","s">>
    [] s = "Hepatitis" -> <<"H","e","p","a","t","i","t","i","s">>
    [] s = "Gout" -> <<"G","o","u","t">>
    [] s = "smoker" -> <<"s","m","o","k","e","r">>
    [] s = "heavy_drinker" -> <<"h","e","a","v","y","_","d","r","i","n","k","e","r">>
    [] s = "male" -> <<"m","a","l","e">>
    [] s = "Female" -> <<"F","e","m","a","l","e">>
    [] s = "female" -> <<"f","e","m","a","l","e">>
    [] s = "other" -> <<"o","t","h","e","r">>
    [] s = "non-binary" -> <<"n","o","n","-","b","i","n","a","r","y">>

LowerChar(c) ==
  CASE c = "A" -> "a" [] c = "B" -> "b" [] c = "C" -> "c" [] c = "D" -> "d"
    [] c = "E" -> "e" [] c = "F" -> "f" [] c = "G" -> "g" [] c = "H" -> "h"
    [] c = "I" -> "i" [] c = "J" -> "j" [] c = "K" -> "k" [] c = "L" -> "l"
    [] c = "M" -> "m" [] c = "N" -> "n" [] c = "O" -> "o" [] c = "P" -> "p"
    [] c = "Q" -> "q" [] c = "R" -> "r" [] c = "S" -> "s" [] c = "T" -> "t"
    [] c = "U" -> "u" [] c = "V" -> "v" [] c = "W" -> "w" [] c = "X" -> "x"
    [] c = "Y" -> "y" [] c = "Z" -> "z" [] OTHER -> c

\* s.lower(), as characters
LowerSeq(cs) == [i \in 1 .. Len(cs) |-> LowerChar(cs[i])]
Lower(s) == LowerSeq(Chars(s))

\* sub in text, both character sequences
Contains(text, sub) ==
  \E i \in 0 .. (Len(text) - Len(sub)) :
     \A j \in 1 .. Len(sub) : text[i + j] = sub[j]

-----------------------------------------------------------------------------
(* sample_value and the four samplers *)

\* what a sampler gives back: an error name ("" for none), the raw value
\* drawn (0 on error), the stream after it and the draws it made
Drew(v, s) == [err |-> "", raw |-> v, rng |-> Step(s), draws |-> 1]
Raised(e, s) == [err |-> e, raw |-> 0, rng |-> s, draws |-> 0]

\* max(x, 1e-9): 1e-9 is below the model's resolution, so the floor is 0
Floor9(a) == RMax(a, R(0))

\* np.random.normal(mean, sd) = mean + sd * z; numpy rejects a negative scale
SampleNormal(mean, sd, s) ==
  IF RLt(sd, R(0)) THEN Raised("ScaleNegative", s)
  ELSE Drew(Quant(RAdd(mean, RMul(sd, R(ZDev(s))))), s)

\* np.random.lognormal(mu, sigma) with mu, sigma matched to max(mean, 1e-9)
\* and max(sd, 1e-9): a positive value around the floored mean
SampleLognormal(mean, sd, s) ==
  Drew(Quant(RMul(Floor9(mean), PosFactor(s))), s)

\* np.random.uniform(min_v, max_v) = min_v + (max_v - min_v) * u, u in [0, 1)
SampleUniform(min_v, max_v, s) ==
  Drew(Quant(RAdd(R(min_v), <<(max_v - min_v) * s, RngMod>>)), s)

\* np.random.gamma(shape = m^2 / s^2, scale = s^2 / m): positive, mean m
SampleGamma(mean, sd, s) ==
  Drew(Quant(RMul(Floor9(mean), PosFactor(Step(s)))), s)

\* params.get("distribution", "normal").lower()
DistOfCaseSensitive(params) == Chars(Get(params, "distribution", "normal"))
DistOf(params) == Lower(Get(params, "distribution", "normal"))

\* params.get("min", params.get("min_val", None)), and the same for max
MinOf(params) == Get(params, "min", Get(params, "min_val", None))
MaxOf(params) == Get(params, "max", Get(params, "max_val", None))

\* the if / elif chain over the distribution name
DrawFromFallback(dist, mean, sd, min_v, max_v, s) ==
  IF dist = <<"l", "o", "g", "n", "o", "r", "m", "a", "l">> THEN SampleLognormal(mean, sd, s)
  ELSE IF dist = <<"u", "n", "i", "f", "o", "r", "m">>
    THEN IF IsNone(min_v) \/ IsNone(max_v)
           THEN Raised("MissingBound", s)
           ELSE SampleUniform(Val(min_v), Val(max_v), s)
  ELSE IF dist = <<"g", "a", "m", "m", "a">> THEN SampleGamma(mean, sd, s)
  ELSE SampleNormal(mean, sd, s)
DrawFrom(dist, mean, sd, min_v, max_v, s) ==
  IF dist = <<"n", "o", "r", "m", "a", "l">> THEN SampleNormal(mean, sd, s)
  ELSE IF dist = <<"l", "o", "g", "n", "o", "r", "m", "a", "l">> THEN SampleLognormal(mean, sd, s)
  ELSE IF dist = <<"u", "n", "i", "f", "o", "r", "m">>
    THEN IF IsNone(min_v) \/ IsNone(max_v)
           THEN Raised("MissingBound", s)
           ELSE SampleUniform(Val(min_v), Val(max_v), s)
  ELSE IF dist = <<"g", "a", "m", "m", "a">> THEN SampleGamma(mean, sd, s)
  ELSE Raised("UnsupportedDistribution", s)

\* the clamp into [min, max] when both are given, then round(val, 2)
ClampRound(v, min_v, max_v) ==
  IF ~IsNone(min_v) /\ ~IsNone(max_v)
    THEN Round2(Clip(v, Val(min_v), Val(max_v)))
    ELSE Round2(v)

\* the value returned for a draw d: the error passed on, or the draw
\* clamped and rounded
Returned(d, min_v, max_v) ==
  IF d.err # ""
    THEN [err |-> d.err, val |-> None, rng |-> d.rng, draws |-> d.draws]
    ELSE [err |-> "", val |-> Some(ClampRound(d.raw, min_v, max_v)),
          rng |-> d.rng, draws |-> d.draws]

\* sample_value(params) on stream state s: [err, val, rng, draws], val boxed
sample_value(params, s) ==
  Returned(DrawFrom(DistOf(params), params["mean"], params["sd"],
                    MinOf(params), MaxOf(params), s),
           MinOf(params), MaxOf(params))

-----------------------------------------------------------------------------
(* apply_sex_age_lifestyle *)

\* a JSON number, or a JSON object, as the value of a dict entry
Num(r) == [kind |-> "num", v |-> r, items |-> <<>>]
Obj(d) == [kind |-> "dict", v |-> R(1), items |-> d]
Lst(q) == [kind |-> "list", v |-> R(1), items |-> q]

\* d.get(key, default) where the key is given by its characters
GetChars(d, cs, default) ==
  IF \E k \in DOMAIN d : Chars(k) = cs
    THEN d[CHOOSE k \in DOMAIN d : Chars(k) = cs]
    ELSE default

Adjusted(mean, sd) == [err |-> "", mean |-> mean, sd |-> sd]
AdjustFailed(e) == [err |-> e, mean |-> R(0), sd |-> R(0)]

\* sex_key = (sex or "other").lower()
SexKey(sex) == IF sex = "" THEN Chars("other") ELSE Lower(sex)

\* the sex_adjustment step: float() of the looked-up entry multiplies the
\* mean (float() of an object raises TypeError); the sd is multiplied only
\* when the entry under sex_key is an object
SexApply(mean, sd, entry, own) ==
  IF entry.kind # "num" THEN AdjustFailed("TypeError")
  ELSE Adjusted(RMul(mean, entry.v),
                IF own.kind = "dict"
                  THEN RMul(sd, Get(own.items, "sd_multiplier", R(1)))
                  ELSE sd)

SexLookup(mean, sd, mults, sex_key) ==
  SexApply(mean, sd,
           GetChars(mults, sex_key, Get(mults, "other", Num(R(1)))),
           GetChars(mults, sex_key, Num(R(1))))

SexStep(mean, sd, test_info, sex) ==
  IF "sex_adjustment" \notin DOMAIN test_info THEN Adjusted(mean, sd)
  ELSE SexLookup(mean, sd, test_info["sex_adjustment"], SexKey(sex))

\* the first band of the list that holds age, both ends inclusive (0: none)
RECURSIVE FirstBandExclusive(_, _, _)
FirstBandExclusive(bands, age, i) ==
  IF i > Len(bands) THEN 0
  ELSE IF bands[i]["min_age"] <= age /\ age < bands[i]["max_age"] THEN i
  ELSE FirstBandExclusive(bands, age, i + 1)

RECURSIVE FirstBand(_, _, _)
FirstBand(bands, age, i) ==
  IF i > Len(bands) THEN 0
  ELSE IF bands[i]["min_age"] <= age /\ age <= bands[i]["max_age"] THEN i
  ELSE FirstBand(bands, age, i + 1)

\* the age_adjustment step: the slope form, else the band list
ScaleMeanOnly(mean, sd, factor) == Adjusted(RMul(mean, factor), sd)
Scale(mean, sd, factor) == Adjusted(RMul(mean, factor), RMul(sd, factor))

BandApply(mean, sd, bands, b) ==
  IF b = 0 THEN Adjusted(mean, sd)
  ELSE Adjusted(RMul(mean, Get(bands[b], "mean_multiplier", R(1))),
                RMul(sd, Get(bands[b], "sd_multiplier", R(1))))

AgeApply(mean, sd, age_adj, age) ==
  IF age_adj.kind = "dict" /\ "slope" \in DOMAIN age_adj.items
    THEN Scale(mean, sd,
               RAdd(R(1), RMul(Get(age_adj.items, "slope", R(0)),
                               RMax(R(0), RSub(R(age),
                                               Get(age_adj.items, "ref_age", R(40)))))))
  ELSE IF age_adj.kind = "list"
    THEN BandApply(mean, sd, age_adj.items, FirstBand(age_adj.items, age, 1))
  ELSE Adjusted(mean, sd)

AgeStep(mean, sd, test_info, age) ==
  IF "age_adjustment" \notin DOMAIN test_info THEN Adjusted(mean, sd)
  ELSE AgeApply(mean, sd, test_info["age_adjustment"], age)

\* the lifestyle loop, in the order of the caller's list
FactorApplyExceptions(mean, sd, fac_info) ==
  Adjusted(RMul(RMul(mean, Get(fac_info, "mean_multiplier", R(1))),
                IF "exceptions" \in DOMAIN fac_info
                  THEN fac_info["exceptions"]["ALT"] ELSE R(1)),
           RMul(sd, Get(fac_info, "sd_multiplier", R(1))))
FactorApply(mean, sd, fac_info) ==
  Adjusted(RMul(mean, Get(fac_info, "mean_multiplier", R(1))),
           RMul(sd, Get(fac_info, "sd_multiplier", R(1))))

RECURSIVE LifestyleFrom(_, _, _, _)
LifestyleFrom(i, a, table, lifestyle) ==
  IF i > Len(lifestyle) THEN a
  ELSE IF lifestyle[i] \in DOMAIN table
    THEN Only({
             LifestyleFrom(i + 1, b, table, lifestyle) :
               b \in {FactorApply(a.mean, a.sd, table[lifestyle[i]])}})
  ELSE LifestyleFrom(i + 1, a, table, lifestyle)

LifestyleStep(mean, sd, test_info, lifestyle) ==
  IF Len(lifestyle) > 0 /\ "lifestyle" \in DOMAIN test_info
    THEN LifestyleFrom(1, Adjusted(mean, sd), test_info["lifestyle"], lifestyle)
    ELSE Adjusted(mean, sd)

\* apply_sex_age_lifestyle: [err, mean, sd]; None and [] are one lifestyle
AfterAge(b, test_info, lifestyle) == LifestyleStep(b.mean, b.sd, test_info, lifestyle)

AfterSex(a, test_info, age, lifestyle) ==
  IF a.err # "" THEN a
  ELSE AfterAge(AgeStep(a.mean, a.sd, test_info, age), test_info, lifestyle)

apply_sex_age_lifestyle(mean, sd, test_info, sex, age, lifestyle) ==
  AfterSex(SexStep(mean, sd, test_info, sex), test_info, age, lifestyle)

-----------------------------------------------------------------------------
(* The differential reconciliation of generate_lab_results *)

diff_names == <<"Neutrophils", "Lymphocytes", "Monocytes", "Eosinophils", "Basophils">>

\* f"{n} (%)" and f"{n} (x10^9/L)"
PctKey(n) ==
  CASE n = "Neutrophils" -> "Neutrophils (%)"
    [] n = "Lymphocytes" -> "Lymphocytes (%)"
    [] n = "Monocytes" -> "Monocytes (%)"
    [] n = "Eosinophils" -> "Eosinophils (%)"
    [] n = "Basophils" -> "Basophils (%)"
AbsKey(n) ==
  CASE n = "Neutrophils" -> "Neutrophils (x10^9/L)"
    [] n = "Lymphocytes" -> "Lymphocytes (x10^9/L)"
    [] n = "Monocytes" -> "Monocytes (x10^9/L)"
    [] n = "Eosinophils" -> "Eosinophils (x10^9/L)"
    [] n = "Basophils" -> "Basophils (x10^9/L)"

DiffPctKeys == {PctKey(diff_names[i]) : i \in 1 .. 5}
DiffAbsKeys == {AbsKey(diff_names[i]) : i \in 1 .. 5}

\* a proportion vector is five positive numbers of tenths that sum to 10
Simplex ==
  {p \in [1 .. 5 -> 1 .. 6] : p[1] + p[2] + p[3] + p[4] + p[5] = 10}

Sum5(c) == c[1] + c[2] + c[3] + c[4] + c[5]

ArgMaxLast(c) ==
  CHOOSE i \in 1 .. 5 :
    /\ \A j \in 1 .. 5 : c[j] <= c[i]
    /\ \A j \in (i + 1) .. 5 : c[j] < c[i]

\* int(np.argmax(abs_counts)): the first index holding the maximum
ArgMax(c) ==
  CHOOSE i \in 1 .. 5 :
    /\ \A j \in 1 .. 5 : c[j] <= c[i]
    /\ \A j \in 1 .. (i - 1) : c[j] < c[i]

\* abs_counts = np.round(sampled_props * total_wbc, 2)
RoundedCounts(total, props) ==
  [i \in 1 .. 5 |-> RoundToCent(<<props[i] * total, 10>>)]

\* diff = round(total_wbc - abs_counts.sum(), 2)
Residual(total, c) == Round2(total - Sum5(c))

\* the rounded counts, the residual given to the largest one when it is
\* 0.01 or more in size
ReconcileCountsNoFix(total, props) == RoundedCounts(total, props)
ReconcileCounts(total, props) ==
  LET c == RoundedCounts(total, props)
      diff == Residual(total, c)
      idx == ArgMax(c)
  IN  IF Abs(diff) >= Cent
        THEN [c EXCEPT ![idx] = Round2(c[idx] + diff)]
        ELSE c

\* round(float(prop * 100.0), 2), as units
Percent(p) == Round2(Quant(<<p * 100 * 100 * Cent, 10>>))

\* the ten assignments into fbc_vals, in the order of diff_names
RECURSIVE EmitFrom(_, _, _, _)
EmitFrom(i, fbc_vals, props, counts) ==
  IF i > 5 THEN fbc_vals
  ELSE Only({
           EmitFrom(i + 1, vals, props, counts) :
             vals \in {OSet(OSet(fbc_vals, PctKey(diff_names[i]),
                                 Some(Percent(props[i]))),
                            AbsKey(diff_names[i]), Some(counts[i]))}})

EmitDifferential(fbc_vals, props, counts) == EmitFrom(1, fbc_vals, props, counts)

\* the null branch: every differential key set to None
RECURSIVE NullFrom(_, _)
NullFrom(i, fbc_vals) ==
  IF i > 5 THEN fbc_vals
  ELSE Only({
           NullFrom(i + 1, vals) :
             vals \in {OSet(OSet(fbc_vals, PctKey(diff_names[i]), None),
                            AbsKey(diff_names[i]), None)}})

NullDifferential(fbc_vals) == NullFrom(1, fbc_vals)

-----------------------------------------------------------------------------
(* generate_lab_results *)

\* a proportion vector read from numpy's stream (np.random.dirichlet): any
\* point of the simplex can come out, whatever alpha is
DirichletDraw(s) ==
  << <<5, 2, 1, 1, 1>>, <<6, 1, 1, 1, 1>>, <<4, 3, 1, 1, 1>>,
     <<2, 2, 2, 2, 2>>, <<4, 2, 2, 1, 1>>, <<3, 3, 2, 1, 1>> >>[(s % 6) + 1]

\* np.random.seed(rng_seed); random.seed(rng_seed), when a seed is given
SeedNumpyOnly(seed, np, py) ==
  IF IsNone(seed) THEN [np |-> np, py |-> py]
  ELSE [np |-> SeedState(Val(seed)), py |-> py]
SeedStreams(seed, np, py) ==
  IF IsNone(seed) THEN [np |-> np, py |-> py]
  ELSE [np |-> SeedState(Val(seed)), py |-> SeedState(Val(seed))]

\* random.sample(population, k): k picks from a pool, each pick replaced in
\* the pool by the pool's last live entry
RECURSIVE SampleFrom(_, _, _, _, _)
Picked(pool, n, k, py, acc, j) ==
  SampleFrom([pool EXCEPT ![j] = pool[n]], n - 1, k - 1, Step(py), Append(acc, pool[j]))
SampleFrom(pool, n, k, py, acc) ==
  IF k = 0 THEN [err |-> "", skip |-> acc, py |-> py]
  ELSE Picked(pool, n, k, py, acc, RandBelow(py, n) + 1)

\* panels_to_skip: with probability missing_panel_prob, random.choice([1, 2])
\* panels drawn by random.sample, which raises when asked for more than
\* there are
PickPanels(panel_names, num_missing, py) ==
  IF num_missing > Len(panel_names)
    THEN [err |-> "SampleLargerThanPopulation", skip |-> <<>>, py |-> py]
    ELSE SampleFrom(panel_names, Len(panel_names), num_missing, py, <<>>)

PanelsToSkip(panel_names, prob, py) ==
  IF py * prob[2] < prob[1] * RngMod
    THEN PickPanels(panel_names, <<1, 2>>[RandBelow(Step(py), 2) + 1], Step(Step(py)))
    ELSE [err |-> "", skip |-> <<>>, py |-> Step(py)]

InSeq(x, q) == \E i \in 1 .. Len(q) : q[i] = x

\* the params dict generate_lab_results hands to sample_value
TmpParams(test_info, adj_mean, adj_sd) ==
  [distribution |-> Get(test_info, "distribution", "normal"),
   mean |-> adj_mean,
   sd |-> adj_sd,
   min |-> Get(test_info, "min", Get(test_info, "min_val", None)),
   max |-> Get(test_info, "max", Get(test_info, "max_val", None))]

\* base_sd = test_info.get("sd", max(0.01, 0.1 * float(base_mean)))
BaseSd(test_info) ==
  Get(test_info, "sd", RMax(R(Cent), RMul(<<1, 10>>, test_info["mean"])))

\* one test of one panel.  st = [err, np, shared, sampled, panel_out,
\* results]: numpy's stream, the shared_values dict, the <<panel, test>>
\* pairs sampled so far, the panel's output dict and the results dict
AfterDraw(panel, test_name, st, r) ==
  IF r.err # "" THEN [st EXCEPT !.err = r.err, !.np = r.rng]
  ELSE [st EXCEPT !.np = r.rng,
                  !.shared = OSet(@, test_name, r.val),
                  !.sampled = Append(@, <<panel, test_name>>),
                  !.panel_out = OSet(@, test_name, r.val)]

AfterAdjust(panel, test_name, test_info, st, adj) ==
  IF adj.err # "" THEN [st EXCEPT !.err = adj.err]
  ELSE IF OHas(st.shared, test_name)
    THEN [st EXCEPT !.panel_out = OSet(@, test_name, OGet(st.shared, test_name))]
  ELSE Only({
           AfterDraw(panel, test_name, st, r) :
             r \in {sample_value(TmpParams(test_info, adj.mean, adj.sd), st.np)}})

SampleTest(panel, test_name, test_info, sex, age, lifestyle, st) ==
  IF test_name = "differential_props"
    THEN [st EXCEPT !.panel_out = OSet(@, test_name, test_info)]
  ELSE Only({
           AfterAdjust(panel, test_name, test_info, st, adj) :
             adj \in {apply_sex_age_lifestyle(test_info["mean"], BaseSd(test_info),
                                              test_info, sex, age, lifestyle)}})

\* the tests of one panel, in the profile's order
RECURSIVE SampleTests(_, _, _, _, _, _, _)
SampleTests(panel, panel_tests, t, sex, age, lifestyle, st) ==
  IF t > Len(panel_tests) \/ st.err # "" THEN st
  ELSE Only({
           SampleTests(panel, panel_tests, t + 1, sex, age, lifestyle, next) :
             next \in {SampleTest(panel, panel_tests[t][1], panel_tests[t][2],
                                  sex, age, lifestyle, st)}})

\* the first pass over the panels.  results maps a panel to
\* [skipped, vals, own]: None for a skipped panel, its output dict
\* otherwise; own says that the dict is panel_out, made by the call, and not
\* the panel's dict of the profile document
StorePanelAliased(panel, done) ==
  [done EXCEPT !.results = OSet(@, panel, [skipped |-> FALSE, vals |-> done.panel_out,
                                           own |-> FALSE])]
StorePanel(panel, done) ==
  [done EXCEPT !.results = OSet(@, panel, [skipped |-> FALSE, vals |-> done.panel_out,
                                           own |-> TRUE])]

SamplePanelNoSkip(panel, panel_tests, panels_to_skip, sex, age, lifestyle, st) ==
  Only({
      StorePanel(panel, done) :
        done \in {SampleTests(panel, panel_tests, 1, sex, age, lifestyle,
                              [st EXCEPT !.panel_out = <<>>])}})
SamplePanel(panel, panel_tests, panels_to_skip, sex, age, lifestyle, st) ==
  IF InSeq(panel, panels_to_skip)
    THEN [st EXCEPT !.results = OSet(@, panel, [skipped |-> TRUE, vals |-> <<>>,
                                                own |-> TRUE])]
    ELSE Only({
             StorePanel(panel, done) :
               done \in {SampleTests(panel, panel_tests, 1, sex, age, lifestyle,
                                     [st EXCEPT !.panel_out = <<>>])}})

RECURSIVE SamplePanels(_, _, _, _, _, _, _)
SamplePanels(profile, i, panels_to_skip, sex, age, lifestyle, st) ==
  IF i > Len(profile) \/ st.err # "" THEN st
  ELSE Only({
           SamplePanels(profile, i + 1, panels_to_skip, sex, age, lifestyle, next) :
             next \in {SamplePanel(profile[i][1], profile[i][2], panels_to_skip,
                                   sex, age, lifestyle, st)}})

\* the FBC-like panel: the first whose lower-cased name holds "fbc", or
\* "full" and "blood", or "fullblood" (0: none)
IsFbcNameFbcOnly(pn) == Contains(Lower(pn), <<"f", "b", "c">>)
IsFbcName(pn) ==
  LET low == Lower(pn)
  IN  \/ Contains(low, <<"f", "b", "c">>)
      \/ (Contains(low, <<"f", "u", "l", "l">>)
          /\ Contains(low, <<"b", "l", "o", "o", "d">>))
      \/ Contains(low, <<"f", "u", "l", "l", "b", "l", "o", "o", "d">>)

RECURSIVE FbcIndex(_, _)
FbcIndex(panel_names, i) ==
  IF i > Len(panel_names) THEN 0
  ELSE IF IsFbcName(panel_names[i]) THEN i
  ELSE FbcIndex(panel_names, i + 1)

\* wbc_key: the first alias that is a key of fbc_vals, else the first key
\* whose lower-cased name holds "wbc" ("" : none)
\* (the multiplication sign of the source's keys is written x here)
WbcAliases ==
  <<"WBC (x10^9/L)", "WBC (10^9/L)", "WBC", "WBC (x10^9/L)", "WBC (x10^9/L)">>

RECURSIVE FirstAlias(_, _)
FirstAlias(fbc_vals, i) ==
  IF i > Len(WbcAliases) THEN ""
  ELSE IF OHas(fbc_vals, WbcAliases[i]) THEN WbcAliases[i]
  ELSE FirstAlias(fbc_vals, i + 1)

RECURSIVE FirstWbcLike(_, _)
FirstWbcLike(fbc_vals, i) ==
  IF i > Len(fbc_vals) THEN ""
  ELSE IF Contains(Lower(fbc_vals[i][1]), <<"w", "b", "c">>) THEN fbc_vals[i][1]
  ELSE FirstWbcLike(fbc_vals, i + 1)

OrElse(a, b) == IF a # "" THEN a ELSE b

WbcKeyFirstTest(fbc_vals) == fbc_vals[1][1]
WbcKey(fbc_vals) == OrElse(FirstAlias(fbc_vals, 1), FirstWbcLike(fbc_vals, 1))

\* base_props: the five declared proportions, in hundredths, when
\* differential_props is a dict of numbers with a positive sum; else the
\* defaults
DefaultProps == <<R(55), R(30), R(6), R(7), R(2)>>
PropNames == <<"neutrophils", "lymphocytes", "monocytes", "eosinophils", "basophils">>

PropsOfNoSumCheck(e) ==
  IF \E i \in 1 .. 5 : e[i].kind # "num" THEN DefaultProps
  ELSE [i \in 1 .. 5 |-> e[i].v]
PropsOf(e) ==
  IF \E i \in 1 .. 5 : e[i].kind # "num" THEN DefaultProps
  ELSE IF RLe(RAdd(RAdd(RAdd(RAdd(e[1].v, e[2].v), e[3].v), e[4].v), e[5].v), R(0))
    THEN DefaultProps
  ELSE [i \in 1 .. 5 |-> e[i].v]

DeclaredOf(md) ==
  PropsOf([i \in 1 .. 5 |-> Get(md, PropNames[i], Num(DefaultProps[i]))])

BaseProps(fbc_vals) ==
  IF OHas(fbc_vals, "differential_props")
       /\ OGet(fbc_vals, "differential_props").kind = "dict"
    THEN DeclaredOf(OGet(fbc_vals, "differential_props").items)
    ELSE DefaultProps

\* the differential block, on the FBC panel's output dict: [err, vals, np,
\* dirichlet, base_props], dirichlet counting the Dirichlet draws
Reconciled(fbc_vals, np, total_wbc, base_props, sampled_props) ==
  IF \E i \in 1 .. 5 : RLe(base_props[i], R(0))
    THEN [err |-> "AlphaNotPositive", vals |-> fbc_vals, np |-> np,
          dirichlet |-> 0, base_props |-> base_props]
    ELSE [err |-> "",
          vals |-> ODel(EmitDifferential(fbc_vals, sampled_props,
                          ReconcileCounts(total_wbc, sampled_props)),
                        "differential_props"),
          np |-> Step(np), dirichlet |-> 1, base_props |-> base_props]

DifferentialFor(fbc_vals, np, wbc_key) ==
  IF wbc_key = "" \/ IsNone(OGet(fbc_vals, wbc_key))
    THEN [err |-> "", vals |-> NullDifferential(fbc_vals), np |-> np,
          dirichlet |-> 0, base_props |-> <<>>]
    ELSE Reconciled(fbc_vals, np, Val(OGet(fbc_vals, wbc_key)),
                    BaseProps(fbc_vals), DirichletDraw(np))

Differential(fbc_vals, np) == DifferentialFor(fbc_vals, np, WbcKey(fbc_vals))

\* all_cols: Sex, Age, Condition, then per panel of the profile its tests,
\* the ten differential columns standing where differential_props is
\* declared on the FBC-like panel.  A column f"{panel} - {test}" is
\* <<panel, test>>.
RECURSIVE DiffCols(_, _)
DiffCols(panel, i) ==
  IF i > 5 THEN <<>>
  ELSE << <<panel, PctKey(diff_names[i])>>, <<panel, AbsKey(diff_names[i])>> >>
         \o DiffCols(panel, i + 1)

RECURSIVE TestCols(_, _, _, _)
TestCols(panel, panel_tests, t, fbc_panel) ==
  IF t > Len(panel_tests) THEN <<>>
  ELSE (IF panel_tests[t][1] = "differential_props"
          THEN IF panel = fbc_panel THEN DiffCols(panel, 1) ELSE <<>>
          ELSE << <<panel, panel_tests[t][1]>> >>)
       \o TestCols(panel, panel_tests, t + 1, fbc_panel)

RECURSIVE PanelCols(_, _, _)
PanelCols(profile, i, fbc_panel) ==
  IF i > Len(profile) THEN <<>>
  ELSE TestCols(profile[i][1], profile[i][2], 1, fbc_panel)
         \o PanelCols(profile, i + 1, fbc_panel)

\* dedupe while preserving order
RECURSIVE Dedupe(_, _, _)
Dedupe(all_cols, i, cols) ==
  IF i > Len(all_cols) THEN cols
  ELSE Only({
           Dedupe(all_cols, i + 1, kept) :
             kept \in {IF InSeq(all_cols[i], cols) THEN cols ELSE Append(cols, all_cols[i])}})

Columns(profile, fbc_panel) ==
  Dedupe(<< <<"Sex">>, <<"Age">>, <<"Condition">> >> \o PanelCols(profile, 1, fbc_panel),
         1, <<>>)

\* row[col] = v for every entry of every panel that was not skipped
RECURSIVE FillVals(_, _, _, _)
FillVals(panel, vals, t, row) ==
  IF t > Len(vals) THEN row
  ELSE Only({
           FillVals(panel, vals, t + 1, filled) :
             filled \in {IF vals[t][1] = "differential_props" THEN row
                         ELSE OSet(row, <<panel, vals[t][1]>>, vals[t][2])}})

RECURSIVE FillRow(_, _, _)
FillRow(results, i, row) ==
  IF i > Len(results) THEN row
  ELSE Only({
           FillRow(results, i + 1, filled) :
             filled \in {IF results[i][2].skipped THEN row
                         ELSE FillVals(results[i][1], results[i][2].vals, 1, row)}})

\* the row: None under every column, then Sex, Age, Condition, then the values
BuildRow(cols, sex, age, condition, results) ==
  FillRow(results, 1,
    OSet(OSet(OSet([i \in 1 .. Len(cols) |-> <<cols[i], None>>],
                   <<"Sex">>, Some(sex)),
              <<"Age">>, Some(age)),
         <<"Condition">>, Some(condition)))

\* what a call gives back: err ("" for a returned row), the row, the two
\* streams after the call, and what the call did: the panels skipped, the
\* <<panel, test>> pairs sampled, the Dirichlet draws, the base
\* proportions used, for every run of the differential block the number of
\* panels sampled or omitted before it, and the dicts of the profile
\* document that the block wrote, each with its content afterwards
Failed(e, np, py) ==
  [err |-> e, row |-> <<>>, np |-> np, py |-> py, skip |-> <<>>,
   sampled |-> <<>>, dirichlet |-> 0, base_props |-> <<>>,
   reconciled |-> <<>>, profile_writes |-> <<>>]

\* the row of a call whose sampling (st) and differential (df) are done
Finish(condition, sex, age, profile, fbc_panel, runs, sk, st, df) ==
  IF df.err # ""
    THEN [Failed(df.err, df.np, sk.py) EXCEPT !.reconciled = <<Len(st.results)>>]
  ELSE [err |-> "",
        row |-> BuildRow(Columns(profile, fbc_panel), sex, age, condition,
                         IF runs
                           THEN OSet(st.results, fbc_panel,
                                     [skipped |-> FALSE, vals |-> df.vals,
                                      own |-> OGet(st.results, fbc_panel).own])
                           ELSE st.results),
        np |-> df.np, py |-> sk.py, skip |-> sk.skip,
        sampled |-> st.sampled, dirichlet |-> df.dirichlet,
        base_props |-> df.base_props,
        reconciled |-> IF runs THEN <<Len(st.results)>> ELSE <<>>,
        profile_writes |->
          IF runs /\ ~OGet(st.results, fbc_panel).own
            THEN <<[panel |-> fbc_panel, vals |-> df.vals]>>
            ELSE <<>>]

\* the differential runs when an FBC-like panel exists and was not skipped
Reconcile(condition, sex, age, profile, fbc_panel, runs, sk, st) ==
  Only({
      Finish(condition, sex, age, profile, fbc_panel, runs, sk, st, df) :
        df \in {IF runs
                  THEN Differential(OGet(st.results, fbc_panel).vals, st.np)
                  ELSE [err |-> "", vals |-> <<>>, np |-> st.np,
                        dirichlet |-> 0, base_props |-> <<>>]}})

WithFbc(condition, sex, age, profile, fbc_panel, sk, st) ==
  IF st.err # "" THEN Failed(st.err, st.np, sk.py)
  ELSE Reconcile(condition, sex, age, profile, fbc_panel,
                 fbc_panel # "" /\ ~OGet(st.results, fbc_panel).skipped, sk, st)

FbcPanel(panel_names, fi) == IF fi = 0 THEN "" ELSE panel_names[fi]

AfterSkip(condition, sex, age, lifestyle, profile, np, sk) ==
  IF sk.err # "" THEN Failed(sk.err, np, sk.py)
  ELSE Only({
           WithFbc(condition, sex, age, profile,
                   FbcPanel(OKeys(profile), FbcIndex(OKeys(profile), 1)), sk, st) :
             st \in {SamplePanels(profile, 1, sk.skip, sex, age, lifestyle,
                       [err |-> "", np |-> np, shared |-> <<>>, sampled |-> <<>>,
                        panel_out |-> <<>>, results |-> <<>>])}})

WithProfile(condition, sex, age, lifestyle, profile, prob, seeded) ==
  Only({
      AfterSkip(condition, sex, age, lifestyle, profile, seeded.np, sk) :
        sk \in {PanelsToSkip(OKeys(profile), prob, seeded.py)}})

AfterSeedNoCheck(condition, sex, age, lifestyle, profs, prob, seeded) ==
  WithProfile(condition, sex, age, lifestyle,
              (IF OHas(profs, condition) THEN OGet(profs, condition)
                                         ELSE profs[1][2]).panels,
              prob, seeded)
AfterSeed(condition, sex, age, lifestyle, profs, prob, seeded) ==
  IF ~OHas(profs, condition)
    THEN Failed("UnknownCondition", seeded.np, seeded.py)
    ELSE WithProfile(condition, sex, age, lifestyle,
                     OGet(profs, condition).panels, prob, seeded)

generate_lab_results(condition, sex, age, lifestyle, profs, prob, seed, np, py) ==
  AfterSeed(condition, sex, age, lifestyle, profs, prob, SeedStreams(seed, np, py))

-----------------------------------------------------------------------------
(* Spec: generate_lab_results on a profile document of four conditions      *)

\* TestSpecs (units of 0.002)
T_WBC == [mean |-> R(700), sd |-> R(150), min |-> Some(500), max |-> Some(900)]
T_Hb ==
  [distribution |-> "Normal", mean |-> R(1400),
   sex_adjustment |-> ("male" :> Num(<<11, 10>>)) @@ ("other" :> Num(<<9, 10>>)),
   age_adjustment |-> Lst(<< ("min_age" :> 0) @@ ("max_age" :> 40)
                               @@ ("mean_multiplier" :> R(1)),
                             ("min_age" :> 40) @@ ("max_age" :> 120)
                               @@ ("mean_multiplier" :> <<9, 10>>)
                               @@ ("sd_multiplier" :> R(2)) >>)]
T_ALT ==
  [distribution |-> "lognormal", mean |-> R(300), sd |-> R(100),
   min |-> Some(61), max |-> Some(1002),
   age_adjustment |-> Obj(("slope" :> <<1, 100>>) @@ ("ref_age" :> R(40))),
   lifestyle |-> ("heavy_drinker" :>
                    (("mean_multiplier" :> <<3, 2>>) @@ ("sd_multiplier" :> R(2))
                       @@ ("exceptions" :> ("ALT" :> R(5)))))]
T_CRP_LFT ==
  [distribution |-> "gamma", mean |-> R(50), sd |-> R(20),
   min_val |-> Some(0), max_val |-> Some(100)]
T_CRP_UEC ==
  [distribution |-> "gamma", mean |-> R(50), sd |-> R(20),
   min |-> Some(0), max |-> Some(40)]
T_Urea ==
  [distribution |-> "uniform", mean |-> R(20), sd |-> R(5),
   min |-> Some(10), max |-> Some(30)]
T_Neut == [mean |-> R(2000), sd |-> R(500)]

DeclaredProps ==
  Obj(("neutrophils" :> Num(R(50))) @@ ("lymphocytes" :> Num(R(35)))
        @@ ("monocytes" :> Num(R(5))) @@ ("eosinophils" :> Num(R(8)))
        @@ ("basophils" :> Num(R(2))))

\* condition -> {"panels": panel -> test -> TestSpec}, in document order
ProfileStore ==
  << <<"Anaemia",
       [panels |->
          << <<"FBC", << <<"WBC", T_WBC>>, <<"Hb", T_Hb>>,
                         <<"differential_props", DeclaredProps>> >> >>,
             <<"LFT", << <<"ALT", T_ALT>>, <<"CRP", T_CRP_LFT>> >> >>,
             <<"UEC", << <<"Urea", T_Urea>>, <<"CRP", T_CRP_UEC>> >> >> >>]>>,
     <<"Sepsis",
       [panels |->
          << <<"Full Blood Count", << <<"Total wbc", T_WBC>>,
                                      <<"Neutrophils (%)", T_Neut>> >> >>,
             <<"LFT", << <<"ALT", T_ALT>>, <<"Neutrophils (%)", T_Neut>> >> >> >>]>>,
     <<"Hepatitis",
       [panels |->
          << <<"FBC", << <<"Hb", T_Hb>>,
                         <<"differential_props", DeclaredProps>> >> >>,
             <<"LFT", << <<"ALT", T_ALT>> >> >> >>]>>,
     <<"Gout",
       [panels |-> << <<"UEC", << <<"Urea", T_Urea>> >> >> >>]>> >>

Conditions == {"Anaemia", "Sepsis", "Hepatitis", "Gout", "Unknown"}
Contexts ==
  {[sex |-> "male", age |-> 40, lifestyle |-> <<>>],
   [sex |-> "Female", age |-> 65, lifestyle |-> <<"smoker", "heavy_drinker">>]}
\* missing_panel_prob: never, the default 0.14, always
Probs == {<<0, 1>>, <<7, 50>>, <<1, 1>>}
Seeds == {None, Some(0), Some(1), Some(42)}

Idle == Failed("pending", np_rng, py_rng)

Init ==
  /\ np_rng \in RngStates
  /\ py_rng \in RngStates
  /\ profiles = ProfileStore
  /\ call = [op |-> "init"]
  /\ out = Idle

\* one call of generate_lab_results(condition, sex, age, lifestyle,
\* profiles, missing_panel_prob, rng_seed) on the streams as they stand
GenerateLabResults ==
  /\ out.err = "pending"
  /\ \E condition \in Conditions, c \in Contexts, prob \in Probs, seed \in Seeds :
       /\ call' = [op |-> "generate_lab_results", condition |-> condition,
                   sex |-> c.sex, age |-> c.age, lifestyle |-> c.lifestyle,
                   missing_panel_prob |-> prob, rng_seed |-> seed,
                   np_before |-> np_rng, py_before |-> py_rng]
       /\ out' = generate_lab_results(condition, c.sex, c.age, c.lifestyle,
                                      profiles, prob, seed, np_rng, py_rng)
       /\ np_rng' = out'.np
       /\ py_rng' = out'.py
       /\ profiles' =
            IF out'.profile_writes = <<>> THEN profiles
            ELSE OSet(profiles, condition,
                      [panels |-> OSet(OGet(profiles, condition).panels,
                                       out'.profile_writes[1].panel,
                                       out'.profile_writes[1].vals)])

Next == GenerateLabResults

Spec == Init /\ [][Next]_vars

-----------------------------------------------------------------------------
(* SpecDiff: the reconciliation arithmetic on every total and every         *)
(* proportion vector of the bounded sets                                    *)

Totals == {h * Cent : h \in (-3) .. MaxTotal}

InitDiff ==
  /\ np_rng = 0
  /\ py_rng = 0
  /\ profiles = <<>>
  /\ call \in [op : {"reconcile"}, total : Totals, props : Simplex]
  /\ out = [err |-> "pending", vals |-> <<>>, fixed |-> FALSE]

ReconcileCall ==
  /\ out.err = "pending"
  /\ out' = [err |-> "",
             vals |-> EmitDifferential(<< <<"WBC", Some(call.total)>> >>, call.props,
                                       ReconcileCounts(call.total, call.props)),
             fixed |-> Abs(Residual(call.total,
                                    RoundedCounts(call.total, call.props))) >= Cent]
  /\ UNCHANGED <<np_rng, py_rng, profiles, call>>

NextDiff == ReconcileCall

SpecDiff == InitDiff /\ [][NextDiff]_vars

\* the sum of the five absolute-count columns of a result dict
AbsSum(vals) ==
  Val(OGet(vals, "Neutrophils (x10^9/L)")) + Val(OGet(vals, "Lymphocytes (x10^9/L)"))
    + Val(OGet(vals, "Monocytes (x10^9/L)")) + Val(OGet(vals, "Eosinophils (x10^9/L)"))
    + Val(OGet(vals, "Basophils (x10^9/L)"))

\* C4: once the composite panel's differential is computed from a non-null
\* total, the five absolute-count columns sum to the total-count column
\* within 0.01, whether or not the residual correction was applied.
C4_AbsCountsSumToTotal ==
  (call.op = "reconcile" /\ out.err = "")
  => /\ \A k \in DiffAbsKeys : OHas(out.vals, k)
     /\ Abs(AbsSum(out.vals) - Val(OGet(out.vals, "WBC"))) <= Cent

C4_Witness ==
  /\ call.op = "reconcile" /\ out.err = ""
  /\ out.fixed
  /\ Val(OGet(out.vals, "WBC")) = 3 * Cent
  /\ AbsSum(out.vals) = 3 * Cent

\* the five products rounded to 0.01, what they leave of the total, and
\* the counts the call put in its result
RoundedOfCall == RoundedCounts(call.total, call.props)
LeftOver == call.total - Sum5(RoundedOfCall)
FinalCount(i) == Val(OGet(out.vals, AbsKey(diff_names[i])))
Largest ==
  CHOOSE i \in 1 .. 5 :
    /\ \A j \in 1 .. 5 : RoundedOfCall[j] <= RoundedOfCall[i]
    /\ \A j \in 1 .. 5 : RoundedOfCall[j] = RoundedOfCall[i] => i <= j

\* C20: when the five rounded counts miss the total by 0.01 or more, the
\* whole residual (total minus sum) is added to one count, the largest
\* rounded count, the first of them on a tie, and the other four stay as
\* rounded; when they sum to the total no count is changed.
C20_ResidualToLargest ==
  (call.op = "reconcile" /\ out.err = "")
  => IF Abs(LeftOver) >= Cent
       THEN /\ FinalCount(Largest) = RoundedOfCall[Largest] + LeftOver
            /\ \A i \in (1 .. 5) \ {Largest} : FinalCount(i) = RoundedOfCall[i]
       ELSE \A i \in 1 .. 5 : FinalCount(i) = RoundedOfCall[i]

\* five equal proportions of a total of 0.03: every count rounds to 0.01,
\* and the residual of -0.02 goes to the first
C20_Witness ==
  /\ call.op = "reconcile" /\ out.err = ""
  /\ call.total = 3 * Cent
  /\ \A i \in 1 .. 5 : call.props[i] = 2 /\ RoundedOfCall[i] = Cent
  /\ LeftOver = -(2 * Cent)
  /\ FinalCount(1) = -Cent
  /\ \A i \in 2 .. 5 : FinalCount(i) = Cent

\* C26: whenever the total count is non-negative, each of the five
\* absolute counts the reconciliation emits is non-negative, the one that
\* takes the residual included.
C26_CountsNonNegative ==
  (call.op = "reconcile" /\ out.err = "" /\ call.total >= 0)
  => \A i \in 1 .. 5 : FinalCount(i) >= 0

-----------------------------------------------------------------------------
(* SpecSample: sample_value applied to parameters drawn from bounded sets *)

DistNames == {"normal", "Normal", "lognormal", "LOGNORMAL", "uniform",
              "Uniform", "gamma", "GAMMA", "poisson", "normal2", ""}
SampleMeans == {R(50), R(0), <<123, 2>>}
SampleSds == {R(0), R(10), <<7, 2>>, R(-5)}
SampleBounds == {40, 61, 62, 100}

\* the bound keys a params dict may hold: each of min / max absent, None or
\* a number, and each alias absent or a number
BoundDicts(key, alias) ==
  {<<>>} \cup {(key :> None)} \cup {(key :> Some(b)) : b \in SampleBounds}
    \cup {(alias :> Some(b)) : b \in {40, 62}}
    \cup {(key :> None) @@ (alias :> Some(40))}

SampleParams ==
  { ("mean" :> m) @@ ("sd" :> sd) @@ dd @@ lo @@ hi :
      m \in SampleMeans, sd \in SampleSds,
      dd \in {<<>>} \cup {("distribution" :> n) : n \in DistNames},
      lo \in BoundDicts("min", "min_val"), hi \in BoundDicts("max", "max_val") }

\* the call is made once, on the parameters and the stream state Init drew
InitSample ==
  /\ np_rng \in RngStates
  /\ py_rng = 0
  /\ profiles = <<>>
  /\ call \in {[op |-> "sample_value", params |-> p, np_before |-> np_rng] :
                 p \in SampleParams}
  /\ out = [err |-> "pending", val |-> None, rng |-> np_rng, draws |-> 0]

SampleValueCall ==
  /\ out.err = "pending"
  /\ out' = sample_value(call.params, np_rng)
  /\ np_rng' = out'.rng
  /\ UNCHANGED <<py_rng, profiles, call>>

NextSample == SampleValueCall

SpecSample == InitSample /\ [][NextSample]_vars

-----------------------------------------------------------------------------
(* Claims about sample_value, under SpecSample *)

SampleReturned == call.op = "sample_value" /\ out.err = ""
SampleEnded == call.op = "sample_value" /\ out.err # "pending"
DistName == Get(call.params, "distribution", "normal")

\* C1: whatever the distribution, when both bounds are given and min <= max
\* the value sample_value returns (clamped, then rounded to 2 decimals) lies
\* in [min, max].
C1_ValueWithinBounds ==
  (/\ SampleReturned
   /\ ~IsNone(MinOf(call.params)) /\ ~IsNone(MaxOf(call.params))
   /\ Val(MinOf(call.params)) <= Val(MaxOf(call.params)))
  => /\ Val(MinOf(call.params)) <= Val(out.val)
     /\ Val(out.val) <= Val(MaxOf(call.params))

\* C9: a uniform distribution (in any letter case) with min or max missing
\* fails with the missing-bound error, whatever mean and sd are, and numpy's
\* stream is where it was before the call: no draw was made.
C9_UniformMissingBound ==
  (/\ SampleEnded
   /\ DistName \in {"uniform", "Uniform"}
   /\ (IsNone(MinOf(call.params)) \/ IsNone(MaxOf(call.params))))
  => /\ out.err = "MissingBound"
     /\ IsNone(out.val)
     /\ out.draws = 0
     /\ np_rng = call.np_before

C9_Witness ==
  /\ SampleEnded
  /\ DistName = "Uniform"
  /\ "min" \notin DOMAIN call.params /\ "min_val" \notin DOMAIN call.params
  /\ ~IsNone(MaxOf(call.params))
  /\ out.err = "MissingBound"

\* C10: a distribution name that is none of normal, lognormal, uniform and
\* gamma in any letter case fails with the unsupported-distribution error,
\* and no value is returned.
C10_UnsupportedDistribution ==
  (/\ SampleEnded
   /\ DistName \notin {"normal", "Normal", "lognormal", "LOGNORMAL",
                       "uniform", "Uniform", "gamma", "GAMMA"})
  => /\ out.err = "UnsupportedDistribution"
     /\ IsNone(out.val)

C10_Witness ==
  /\ SampleEnded
  /\ DistName = "normal2"
  /\ out.err = "UnsupportedDistribution"
  /\ IsNone(out.val)


-----------------------------------------------------------------------------
(* generate_cohort *)

DefaultSexChoices == <<"male", "female", "non-binary">>
DefaultAgeRange == <<20, 85>>
\* [None, [], ["smoker"], ...]: None and [] are both <<>>
DefaultLifestyleChoices ==
  << <<>>, <<>>, <<"smoker">>, <<"heavy_drinker">>,
     <<"smoker", "heavy_drinker">>, <<"athlete">>, <<"high_bmi">> >>

\* `given if given else default`: None and the empty list give the default
OrDefault(given, default) == IF given = <<>> THEN default ELSE given

\* random.choice(seq) and random.randint(a, b) read on stream state s
Choice(seq, s) == seq[RandBelow(s, Len(seq)) + 1]
RandInt(a, b, s) == a + RandBelow(s, b - a + 1)

\* rng_seed + i, None staying None
SeedPlus(rng_seed, i) == IF IsNone(rng_seed) THEN None ELSE Some(Val(rng_seed) + i)

\* rows.append(row), or the exception of the row's call passed on; calls
\* keeps, for every call made, the seed it was given and what it gave back
AppendRow(acc, r, seed) ==
  IF r.err # ""
    THEN [acc EXCEPT !.err = r.err, !.np = r.np, !.py = r.py,
                     !.calls = Append(@, [rng_seed |-> seed, err |-> r.err,
                                          row |-> r.row])]
    ELSE [acc EXCEPT !.rows = Append(@, r.row), !.np = r.np, !.py = r.py,
                     !.calls = Append(@, [rng_seed |-> seed, err |-> r.err,
                                          row |-> r.row])]

\* the body of the loop for index i (from 0): four draws on Python's stream
\* for cond, sex, age and lifestyle, then the row's call under rng_seed + i
CohortRow(i, a, acc) ==
  generate_lab_results(
    Choice(a.conditions, acc.py),
    Choice(a.sex_choices, Step(acc.py)),
    RandInt(a.age_range[1], a.age_range[2], Step(Step(acc.py))),
    Choice(a.lifestyle_choices, Step(Step(Step(acc.py)))),
    a.profiles, a.missing_panel_prob, SeedPlus(a.rng_seed, i),
    acc.np, Step(Step(Step(Step(acc.py)))))

RECURSIVE CohortFrom(_, _, _)
CohortFrom(i, a, acc) ==
  IF i >= a.n \/ acc.err # "" THEN acc
  ELSE Only({CohortFrom(i + 1, a, AppendRow(acc, r, SeedPlus(a.rng_seed, i))) :
               r \in {CohortRow(i, a, acc)}})

\* pd.concat(rows, ignore_index=True): the rows in list order, renumbered
\* from 0; an empty list raises ValueError ("No objects to concatenate").
\* Each row keeps its own columns here; the frame's union of columns, with
\* NaN where a row lacks one, is not represented.
Concat(acc) ==
  IF acc.err = "" /\ acc.rows = <<>> THEN [acc EXCEPT !.err = "ValueError"]
  ELSE acc

\* generate_cohort: [err, rows, calls, np, py], rows the rows of the frame
generate_cohort(n, profs, condition_sampler, sex_choices, age_range, lifestyle_choices, prob, rng_seed, np, py) ==
  Concat(CohortFrom(0,
             [n |-> n, profiles |-> profs,
              conditions |-> OrDefault(condition_sampler, OKeys(profs)),
              sex_choices |-> OrDefault(sex_choices, DefaultSexChoices),
              age_range |-> OrDefault(age_range, DefaultAgeRange),
              lifestyle_choices |-> OrDefault(lifestyle_choices,
                                              DefaultLifestyleChoices),
              missing_panel_prob |-> prob, rng_seed |-> rng_seed],
             [err |-> "", rows |-> <<>>, calls |-> <<>>, np |-> np, py |-> py]))

-----------------------------------------------------------------------------
(* SpecCohort: one cohort run on the streams as they stand *)

\* the largest cohort
MaxRows == 2

CohortSizes == 0 .. MaxRows
CohortSeeds == {None, Some(0), Some(3)}
ConditionSamplers == {<<>>, <<"Hepatitis", "Sepsis">>}
SexChoices == {<<>>, <<"Female", "other">>}
AgeRanges == {<<>>, <<30, 50>>}
CohortProbs == {<<0, 1>>, <<7, 50>>}

InitCohort ==
  /\ np_rng \in RngStates
  /\ py_rng \in RngStates
  /\ profiles = ProfileStore
  /\ call = [op |-> "init"]
  /\ out = [err |-> "pending", rows |-> <<>>, calls |-> <<>>,
            np |-> np_rng, py |-> py_rng]

GenerateCohort ==
  /\ out.err = "pending"
  /\ \E n \in CohortSizes, rng_seed \in CohortSeeds, cs \in ConditionSamplers,
        sc \in SexChoices, ar \in AgeRanges, prob \in CohortProbs :
       /\ call' = [op |-> "generate_cohort", n |-> n, condition_sampler |-> cs,
                   sex_choices |-> sc, age_range |-> ar,
                   missing_panel_prob |-> prob, rng_seed |-> rng_seed,
                   np_before |-> np_rng, py_before |-> py_rng]
       /\ out' = generate_cohort(n, profiles, cs, sc, ar, <<>>, prob, rng_seed,
                                 np_rng, py_rng)
       /\ np_rng' = out'.np
       /\ py_rng' = out'.py
       /\ UNCHANGED profiles

NextCohort == GenerateCohort

SpecCohort == InitCohort /\ [][NextCohort]_vars

-----------------------------------------------------------------------------
(* Claims about generate_lab_results, under Spec *)

RowReturned == call.op = "generate_lab_results" /\ out.err = ""

\* the panels of the condition of the call, as the profile declares them
ProfileOfCall == OGet(profiles, call.condition).panels

\* <<panel, test, TestSpec>> for every test the profile declares
DeclaredTests(profile) ==
  UNION { { <<profile[i][1], profile[i][2][j][1], profile[i][2][j][2]>> :
              j \in {k \in 1 .. Len(profile[i][2]) :
                       profile[i][2][k][1] # "differential_props"} } :
          i \in 1 .. Len(profile) }

\* the composite panel of a profile ("" : none) and the tests it declares
CompositeOf(profile) == FbcPanel(OKeys(profile), FbcIndex(OKeys(profile), 1))
CompositeTests(profile) == OGet(profile, CompositeOf(profile))

\* the same call made with no panel omitted, on freshly seeded streams
ReferenceCall ==
  generate_lab_results(call.condition, call.sex, call.age, call.lifestyle,
                       profiles, <<0, 1>>, Some(0), 0, 0)

\* the same call, seed included, made on other streams
SameCallElsewhere ==
  generate_lab_results(call.condition, call.sex, call.age, call.lifestyle,
                       profiles, call.missing_panel_prob, call.rng_seed, 0, 0)

\* C2: in a returned row, every non-null value of a test whose TestSpec, in
\* the panel of its column, declares both min and max lies in that
\* [min, max], whether it was sampled there or reused from an earlier panel.
C2_RowValuesWithinBounds ==
  RowReturned
  => \A d \in DeclaredTests(ProfileOfCall) :
       (/\ ~IsNone(MinOf(d[3])) /\ ~IsNone(MaxOf(d[3]))
        /\ OHas(out.row, <<d[1], d[2]>>)
        /\ ~IsNone(OGet(out.row, <<d[1], d[2]>>)))
       => /\ Val(MinOf(d[3])) <= Val(OGet(out.row, <<d[1], d[2]>>))
          /\ Val(OGet(out.row, <<d[1], d[2]>>)) <= Val(MaxOf(d[3]))

\* C3: in a returned row, a test declared in two panels that were both not
\* omitted has one value in both panels' columns, and was sampled once.
C3_SharedValueIdentical ==
  RowReturned
  => \A d, e \in DeclaredTests(ProfileOfCall) :
       (/\ d[2] = e[2] /\ d[1] # e[1]
        /\ ~InSeq(d[1], out.skip) /\ ~InSeq(e[1], out.skip))
       => /\ OGet(out.row, <<d[1], d[2]>>) = OGet(out.row, <<e[1], e[2]>>)
          /\ Cardinality({i \in 1 .. Len(out.sampled) :
                            out.sampled[i][2] = d[2]}) = 1

\* the composite panel declares no total-count test: no alias and no name
\* holding "wbc"
NoTotalCount(tests) ==
  \A j \in 1 .. Len(tests) :
     /\ ~InSeq(tests[j][1], WbcAliases)
     /\ ~Contains(Lower(tests[j][1]), <<"w", "b", "c">>)

CompositeSampledWithoutTotal ==
  /\ RowReturned
  /\ CompositeOf(ProfileOfCall) # ""
  /\ ~InSeq(CompositeOf(ProfileOfCall), out.skip)
  /\ NoTotalCount(CompositeTests(ProfileOfCall))

\* C5: when the composite panel is sampled and holds no total count, the
\* five percentage columns and the five absolute-count columns of the row
\* are null and no Dirichlet draw is made.
C5_NullDifferential ==
  CompositeSampledWithoutTotal
  => /\ out.dirichlet = 0
     /\ \A k \in DiffPctKeys \cup DiffAbsKeys :
          /\ OHas(out.row, <<CompositeOf(ProfileOfCall), k>>)
          /\ IsNone(OGet(out.row, <<CompositeOf(ProfileOfCall), k>>))

C5_Witness ==
  /\ CompositeSampledWithoutTotal
  /\ call.condition = "Hepatitis"
  /\ ~IsNone(OGet(out.row, <<"FBC", "Hb">>))
  /\ IsNone(OGet(out.row, <<"FBC", "Neutrophils (%)">>))
  /\ out.dirichlet = 0

\* C6: for one condition and profile, every returned row has the column
\* names, in the order, of the row of any other call: whatever the seed,
\* whichever panels were omitted, and whether or not the composite panel
\* declares differential_props.
C6_SameSchema ==
  RowReturned
  => \A ref \in {ReferenceCall} :
       ref.err = "" => OKeys(out.row) = OKeys(ref.row)

\* C7: a call with a seed returns what the same call with the same seed
\* returns from any other state of the two streams.
C7_SeededDeterministic ==
  (call.op = "generate_lab_results" /\ ~IsNone(call.rng_seed))
  => \A ref \in {SameCallElsewhere} :
       /\ out.err = ref.err
       /\ out.row = ref.row

C7_Witness ==
  /\ RowReturned
  /\ ~IsNone(call.rng_seed)
  /\ call.np_before # 0 /\ call.py_before # 0
  /\ call.np_before # SeedState(Val(call.rng_seed))
  /\ Len(out.skip) >= 1
  /\ Len(out.sampled) >= 2

\* the stream a call leaves behind when it draws nothing: the seeded state
\* when a seed is given, the state before the call otherwise
Undrawn(before) ==
  IF IsNone(call.rng_seed) THEN before ELSE SeedState(Val(call.rng_seed))

\* C11: a call whose condition is not a key of the profile store fails with
\* the unknown-condition error and returns no row; no panel was omitted, no
\* test sampled and no draw made on either stream.
C11_UnknownCondition ==
  (call.op = "generate_lab_results" /\ ~OHas(profiles, call.condition))
  => /\ out.err = "UnknownCondition"
     /\ out.row = <<>>
     /\ out.skip = <<>> /\ out.sampled = <<>> /\ out.dirichlet = 0
     /\ np_rng = Undrawn(call.np_before)
     /\ py_rng = Undrawn(call.py_before)

C11_Witness ==
  /\ call.op = "generate_lab_results"
  /\ call.condition = "Unknown"
  /\ call.missing_panel_prob = <<1, 1>>
  /\ out.err = "UnknownCondition"

\* the columns of a panel in a row, and the panel's differential columns
ColumnsOf(row, panel) == {i \in 1 .. Len(row) : row[i][1][1] = panel}
DeclaresProps(tests) == \E j \in 1 .. Len(tests) : tests[j][1] = "differential_props"

\* C12: in a returned row every column of an omitted panel is null: each
\* test it declares and, for the composite panel, the ten differential
\* columns; Sex, Age and Condition hold the arguments of the call.
C12_OmittedPanelsNull ==
  RowReturned
  => /\ OGet(out.row, <<"Sex">>) = Some(call.sex)
     /\ OGet(out.row, <<"Age">>) = Some(call.age)
     /\ OGet(out.row, <<"Condition">>) = Some(call.condition)
     /\ \A p \in 1 .. Len(ProfileOfCall) :
          InSeq(ProfileOfCall[p][1], out.skip)
          => /\ \A i \in ColumnsOf(out.row, ProfileOfCall[p][1]) :
                  IsNone(out.row[i][2])
             /\ \A d \in DeclaredTests(ProfileOfCall) :
                  d[1] = ProfileOfCall[p][1] => OHas(out.row, <<d[1], d[2]>>)
             /\ (/\ ProfileOfCall[p][1] = CompositeOf(ProfileOfCall)
                 /\ DeclaresProps(ProfileOfCall[p][2]))
                => \A k \in DiffPctKeys \cup DiffAbsKeys :
                     OHas(out.row, <<ProfileOfCall[p][1], k>>)

C12_Witness ==
  /\ RowReturned
  /\ call.condition = "Hepatitis"
  /\ InSeq("FBC", out.skip) /\ InSeq("LFT", out.skip)
  /\ IsNone(OGet(out.row, <<"FBC", "Hb">>))
  /\ IsNone(OGet(out.row, <<"FBC", "Basophils (%)">>))
  /\ IsNone(OGet(out.row, <<"LFT", "ALT">>))
  /\ OGet(out.row, <<"Sex">>) = Some("Female")

\* a panel name that reads as the composite panel, and the first such
\* panel of the call's profile (0: none)
ReadsAsComposite(pn) ==
  \/ Contains(Lower(pn), <<"f", "b", "c">>)
  \/ /\ Contains(Lower(pn), <<"f", "u", "l", "l">>)
     /\ Contains(Lower(pn), <<"b", "l", "o", "o", "d">>)
CompositeLike == {i \in 1 .. Len(ProfileOfCall) : ReadsAsComposite(ProfileOfCall[i][1])}
FirstComposite ==
  IF CompositeLike = {} THEN 0
  ELSE CHOOSE i \in CompositeLike : \A j \in CompositeLike : i <= j

\* C19: in one call the differential block runs at most once, with every
\* panel of the profile sampled or omitted before it, and in a returned call
\* exactly when the first panel whose lower-cased name holds "fbc", or
\* "full" and "blood", exists and was not omitted; a call in which it does
\* not run makes no Dirichlet draw.
C19_ReconciledOnce ==
  (call.op = "generate_lab_results" /\ OHas(profiles, call.condition))
  => /\ Len(out.reconciled) <= 1
     /\ \A k \in 1 .. Len(out.reconciled) :
          out.reconciled[k] = Len(ProfileOfCall)
     /\ out.reconciled = <<>> => out.dirichlet = 0
     /\ out.err = ""
        => (out.reconciled # <<>>
            <=> /\ FirstComposite # 0
                /\ ~InSeq(ProfileOfCall[FirstComposite][1], out.skip))

\* "Full Blood Count" of Sepsis, kept while LFT is omitted: the block ran
\* after both panels and drew the proportions
C19_Witness ==
  /\ RowReturned
  /\ call.condition = "Sepsis"
  /\ out.skip = <<"LFT">>
  /\ out.reconciled = <<2>>
  /\ out.dirichlet = 1

\* C23: panel omission completes for every known condition and every
\* missing-panel probability, whichever count is drawn: the call does not
\* end in the omission step, and the panels omitted are zero, one or two
\* different panels of the condition.
C23_OmissionCompletes ==
  (/\ call.op = "generate_lab_results"
   /\ OHas(profiles, call.condition)
   /\ Len(ProfileOfCall) >= 1)
  => /\ out.err # "SampleLargerThanPopulation"
     /\ Len(out.skip) \in {0, 1, 2}
     /\ \A i \in 1 .. Len(out.skip) : InSeq(out.skip[i], OKeys(ProfileOfCall))
     /\ \A i, j \in 1 .. Len(out.skip) : out.skip[i] = out.skip[j] => i = j

\* C25: a call that fails with the unknown-condition error leaves numpy's
\* and Python's streams in the state they had before the call, whether or
\* not an rng_seed was passed.
C25_FailedCallKeepsStreams ==
  (call.op = "generate_lab_results" /\ out.err = "UnknownCondition")
  => /\ np_rng = call.np_before
     /\ py_rng = call.py_before

\* C22: no call of generate_lab_results, returned or failed, changes the
\* profile document: every panel, TestSpec and differential_props mapping
\* is after the call what it was before it, also when the call copied
\* differential_props into the composite panel's results and deleted it
\* there.
C22_ProfileReadOnly == [][profiles' = profiles]_vars

\* Anaemia with FBC kept: the proportions were read from the copied
\* mapping, the copy is gone from the row, and the profile still holds it
C22_Witness ==
  /\ RowReturned
  /\ call.condition = "Anaemia"
  /\ out.dirichlet = 1
  /\ \A i \in 1 .. Len(out.row) : out.row[i][1] # <<"FBC", "differential_props">>
  /\ OGet(OGet(ProfileOfCall, "FBC"), "differential_props") = DeclaredProps

-----------------------------------------------------------------------------
(* Claims about generate_cohort, under SpecCohort *)

\* the same cohort run, base seed included, made on other streams
SameCohortElsewhere ==
  generate_cohort(call.n, profiles, call.condition_sampler, call.sex_choices,
                  call.age_range, <<>>, call.missing_panel_prob, call.rng_seed,
                  0, 0)

\* C8: with a base seed, the row at every index of a cohort (its Sex, Age,
\* Condition and values) is the row at that index of any other run with the
\* same base seed, profile and sampler lists, whatever the streams held
\* before the run.
C8_CohortRowsReproducible ==
  (call.op = "generate_cohort" /\ ~IsNone(call.rng_seed) /\ out.err = "")
  => \A ref \in {SameCohortElsewhere} :
       /\ ref.err = ""
       /\ Len(ref.rows) = Len(out.rows)
       /\ \A i \in 1 .. Len(out.rows) : out.rows[i] = ref.rows[i]


\* C16: generate_cohort(n, ..., rng_seed=b) returns exactly n rows in
\* generation order: n calls of generate_lab_results are made, the i-th
\* (from 0) with seed b + i, or with no seed when b is None, and row i is the
\* row that call returned.
C16_RowsInGenerationOrder ==
  (/\ call.op = "generate_cohort"
   /\ \A k \in 1 .. Len(out.calls) : out.calls[k].err = "")
  => /\ out.err = ""
     /\ Len(out.rows) = call.n
     /\ Len(out.calls) = call.n
     /\ \A k \in 1 .. Len(out.rows) :
          /\ out.rows[k] = out.calls[k].row
          /\ out.calls[k].rng_seed = SeedPlus(call.rng_seed, k - 1)


\* C24: generate_cohort returns a cohort of exactly n rows for every
\* n >= 0 whose calls all return; for n = 0 it returns the empty cohort.
C24_CohortOfAnySize ==
  (/\ call.op = "generate_cohort"
   /\ call.n >= 0
   /\ \A k \in 1 .. Len(out.calls) : out.calls[k].err = "")
  => /\ out.err = ""
     /\ Len(out.rows) = call.n
     /\ call.n = 0 => out.rows = <<>>


-----------------------------------------------------------------------------
(* SpecAdjust: the adjustment of one test in the first pass (base mean,    *)
(* base sd, apply_sex_age_lifestyle) on TestSpecs, sexes, ages and          *)
(* lifestyle lists drawn from bounded sets                                  *)

\* the TestSpecs adjusted: overlapping bands (the second without
\* sd_multiplier); the slope form with and without ref_age; sex entries as
\* bare numbers, with and without "other", and as an object; a lifestyle
\* table with an "exceptions" sub-map on a mean below 0.1; and all three
\* stages together.  Those without sd take the default base sd.
AdjustSpecs ==
  { [mean |-> R(1000), sd |-> R(100),
     age_adjustment |->
       Lst(<< ("min_age" :> 20) @@ ("max_age" :> 40)
                @@ ("mean_multiplier" :> R(2)) @@ ("sd_multiplier" :> R(3)),
              ("min_age" :> 40) @@ ("max_age" :> 60)
                @@ ("mean_multiplier" :> <<1, 2>>),
              ("min_age" :> 30) @@ ("max_age" :> 50)
                @@ ("mean_multiplier" :> R(5)) @@ ("sd_multiplier" :> R(7)) >>)],
    [mean |-> R(1000),
     age_adjustment |-> Obj(("slope" :> <<1, 100>>) @@ ("ref_age" :> R(30)))],
    [mean |-> R(1000), sd |-> R(50),
     age_adjustment |-> Obj(("slope" :> <<-1, 50>>))],
    [mean |-> R(1000), sd |-> R(100),
     sex_adjustment |->
       ("male" :> Num(<<11, 10>>)) @@ ("other" :> Num(<<9, 10>>))],
    [mean |-> R(1000), sd |-> R(100),
     sex_adjustment |-> ("male" :> Num(R(2)))],
    [mean |-> R(1000), sd |-> R(100),
     sex_adjustment |->
       ("female" :>
          Obj(("multiplier" :> <<6, 5>>) @@ ("sd_multiplier" :> <<3, 2>>)))
         @@ ("other" :> Num(R(1)))],
    [mean |-> R(25),
     lifestyle |->
       ("smoker" :>
          (("mean_multiplier" :> <<3, 2>>) @@ ("sd_multiplier" :> R(2))))
         @@ ("heavy_drinker" :>
               (("mean_multiplier" :> <<1, 2>>)
                  @@ ("exceptions" :> ("ALT" :> R(5)))))],
    [mean |-> R(400),
     sex_adjustment |-> ("female" :> Num(<<4, 5>>)),
     age_adjustment |-> Obj(("slope" :> <<1, 50>>) @@ ("ref_age" :> R(40))),
     lifestyle |->
       ("smoker" :>
          (("mean_multiplier" :> R(3)) @@ ("sd_multiplier" :> <<1, 2>>)))
         @@ ("heavy_drinker" :>
               (("sd_multiplier" :> R(2))
                  @@ ("exceptions" :> ("ALT" :> R(5)))))] }

\* ages at, inside and outside the ends of the bands and the reference ages
AdjustAges == {19, 20, 30, 40, 41, 50, 60, 61}

InitAdjust ==
  /\ np_rng = 0
  /\ py_rng = 0
  /\ profiles = <<>>
  /\ call \in [op : {"adjust"}, test_info : AdjustSpecs,
               sex : {"male", "Female", "non-binary", ""},
               age : AdjustAges,
               lifestyle : {<<>>, <<"smoker">>, <<"heavy_drinker", "smoker">>,
                            <<"athlete", "smoker", "smoker">>}]
  /\ out = [err |-> "pending", mean |-> R(0), sd |-> R(0), base_sd |-> R(0)]

\* base_mean and base_sd of the test, then apply_sex_age_lifestyle on them
AdjustCall ==
  /\ out.err = "pending"
  /\ \E adj \in {apply_sex_age_lifestyle(call.test_info["mean"],
                                         BaseSd(call.test_info), call.test_info,
                                         call.sex, call.age, call.lifestyle)} :
       out' = [err |-> adj.err, mean |-> adj.mean, sd |-> adj.sd,
               base_sd |-> BaseSd(call.test_info)]
  /\ UNCHANGED <<np_rng, py_rng, profiles, call>>

NextAdjust == AdjustCall

SpecAdjust == InitAdjust /\ [][NextAdjust]_vars

-----------------------------------------------------------------------------
(* Claims about apply_sex_age_lifestyle and the base sd, under SpecAdjust *)

AdjustEnded == call.op = "adjust" /\ out.err # "pending"
AdjustReturned == call.op = "adjust" /\ out.err = ""
Has(key) == key \in DOMAIN call.test_info

\* two rationals are one number
SameNumber(a, b) == a[1] * b[2] = b[1] * a[2]

\* the bands of the call's TestSpec that hold the call's age, ends included
BandsOfCall == call.test_info["age_adjustment"].items
Matching ==
  {i \in 1 .. Len(BandsOfCall) :
     BandsOfCall[i]["min_age"] <= call.age /\ call.age <= BandsOfCall[i]["max_age"]}
Earliest == CHOOSE i \in Matching : \A j \in Matching : i <= j

OnlyBands ==
  /\ AdjustReturned
  /\ Has("age_adjustment") /\ call.test_info["age_adjustment"].kind = "list"
  /\ ~Has("sex_adjustment") /\ ~Has("lifestyle")

\* C13: with a band list, the multipliers of one band are applied: the
\* earliest-listed band whose [min_age, max_age] holds age, both ends
\* included; with no such band mean and sd are returned as given.
C13_FirstMatchingBand ==
  OnlyBands
  => IF Matching = {}
       THEN /\ SameNumber(out.mean, call.test_info["mean"])
            /\ SameNumber(out.sd, out.base_sd)
       ELSE /\ SameNumber(out.mean,
                          RMul(call.test_info["mean"],
                               Get(BandsOfCall[Earliest], "mean_multiplier", R(1))))
            /\ SameNumber(out.sd,
                          RMul(out.base_sd,
                               Get(BandsOfCall[Earliest], "sd_multiplier", R(1))))

\* age 40 is the upper end of the first band and lies in the two later ones
C13_Witness ==
  /\ OnlyBands
  /\ call.age = 40
  /\ Matching = {1, 2, 3}
  /\ SameNumber(out.mean, R(2000))
  /\ SameNumber(out.sd, R(300))

\* the entry the sex step looks up: under the lower-cased sex, else under
\* "other", else the number 1
SexEntry ==
  GetChars(call.test_info["sex_adjustment"], SexKey(call.sex),
           Get(call.test_info["sex_adjustment"], "other", Num(R(1))))

OnlySex ==
  /\ AdjustEnded
  /\ Has("sex_adjustment") /\ ~Has("age_adjustment") /\ ~Has("lifestyle")

\* C14: the sex step multiplies the mean by the looked-up entry; when the
\* entry is a {multiplier, sd_multiplier} object the mean is multiplied by
\* its multiplier and the sd by its sd_multiplier, and the pair is returned.
C14_SexStep ==
  OnlySex
  => /\ out.err = ""
     /\ IF SexEntry.kind = "dict"
          THEN /\ SameNumber(out.mean, RMul(call.test_info["mean"],
                                            Get(SexEntry.items, "multiplier", R(1))))
               /\ SameNumber(out.sd, RMul(out.base_sd,
                                          Get(SexEntry.items, "sd_multiplier", R(1))))
          ELSE /\ SameNumber(out.mean, RMul(call.test_info["mean"], SexEntry.v))
               /\ SameNumber(out.sd, out.base_sd)

\* C15: a TestSpec without sd is sampled with a base sd of one tenth of its
\* mean, whatever the mean.
C15_DefaultSd ==
  (AdjustEnded /\ ~Has("sd"))
  => SameNumber(out.base_sd, RMul(<<1, 10>>, call.test_info["mean"]))

OnlySlope ==
  /\ AdjustReturned
  /\ Has("age_adjustment") /\ call.test_info["age_adjustment"].kind = "dict"
  /\ "slope" \in DOMAIN call.test_info["age_adjustment"].items
  /\ ~Has("sex_adjustment") /\ ~Has("lifestyle")

SlopeOfCall == call.test_info["age_adjustment"].items["slope"]
RefAgeOfCall == Get(call.test_info["age_adjustment"].items, "ref_age", R(40))
YearsPast ==
  IF RLt(RefAgeOfCall, R(call.age)) THEN RSub(R(call.age), RefAgeOfCall) ELSE R(0)

\* C17: with the slope form, mean and sd are both multiplied by
\* 1 + slope * max(0, age - ref_age); at or below ref_age both are returned
\* as given.
C17_SlopeFactor ==
  OnlySlope
  => /\ SameNumber(out.mean,
                   RMul(call.test_info["mean"],
                        RAdd(R(1), RMul(SlopeOfCall, YearsPast))))
     /\ SameNumber(out.sd,
                   RMul(out.base_sd, RAdd(R(1), RMul(SlopeOfCall, YearsPast))))
     /\ RLe(R(call.age), RefAgeOfCall)
        => /\ SameNumber(out.mean, call.test_info["mean"])
           /\ SameNumber(out.sd, out.base_sd)

C17_Witness ==
  /\ OnlySlope
  /\ call.age = 50
  /\ RefAgeOfCall = R(30)
  /\ SameNumber(out.mean, R(1200))
  /\ SameNumber(out.sd, R(120))

\* the product, over the caller's list in its order, of the multiplier
\* under key of every listed factor the lifestyle mapping holds
RECURSIVE LifeProduct(_, _)
LifeProduct(key, i) ==
  IF i > Len(call.lifestyle) THEN R(1)
  ELSE RMul(IF call.lifestyle[i] \in DOMAIN call.test_info["lifestyle"]
              THEN Get(call.test_info["lifestyle"][call.lifestyle[i]], key, R(1))
              ELSE R(1),
            LifeProduct(key, i + 1))

LifeFactor(key) == IF Has("lifestyle") THEN LifeProduct(key, 1) ELSE R(1)

\* the pair after the sex stage, then after the age stage
SexStage ==
  SexStep(call.test_info["mean"], out.base_sd, call.test_info, call.sex)
AgeStage == AgeStep(SexStage.mean, SexStage.sd, call.test_info, call.age)

-----------------------------------------------------------------------------
(* SpecProps: the differential block on the output dict of a composite      *)
(* panel that holds a total count and, or not, a differential_props entry   *)

\* the entry is absent, a number, a list, or a mapping: of five positive
\* numbers, with an entry that is no number, summing to zero, summing to
\* less, of one name only, with a negative entry, with zero entries, empty
InitProps ==
  /\ np_rng \in RngStates
  /\ py_rng = 0
  /\ profiles = <<>>
  /\ call \in [op : {"differential"},
               total : {3 * Cent, 140 * Cent},
               declares : {TRUE},
               md : {Num(R(1)), Lst(<<>>), DeclaredProps,
                     Obj(("neutrophils" :> Lst(<<>>)) @@ ("lymphocytes" :> Num(R(35)))
                           @@ ("monocytes" :> Num(R(5))) @@ ("eosinophils" :> Num(R(8)))
                           @@ ("basophils" :> Num(R(2)))),
                     Obj(("neutrophils" :> Num(R(0))) @@ ("lymphocytes" :> Num(R(0)))
                           @@ ("monocytes" :> Num(R(0))) @@ ("eosinophils" :> Num(R(0)))
                           @@ ("basophils" :> Num(R(0)))),
                     Obj(("neutrophils" :> Num(R(-60))) @@ ("lymphocytes" :> Num(R(30)))
                           @@ ("monocytes" :> Num(R(6))) @@ ("eosinophils" :> Num(R(7)))
                           @@ ("basophils" :> Num(R(2)))),
                     Obj(("neutrophils" :> Num(R(70)))),
                     Obj(("neutrophils" :> Num(R(60))) @@ ("lymphocytes" :> Num(R(-5)))
                           @@ ("monocytes" :> Num(R(6))) @@ ("eosinophils" :> Num(R(7)))
                           @@ ("basophils" :> Num(R(2)))),
                     Obj(("neutrophils" :> Num(R(90))) @@ ("lymphocytes" :> Num(R(10)))
                           @@ ("monocytes" :> Num(R(0))) @@ ("eosinophils" :> Num(R(0)))
                           @@ ("basophils" :> Num(R(0)))),
                     Obj(<<>>)}]
          \cup [op : {"differential"}, total : {3 * Cent, 140 * Cent},
                declares : {FALSE}, md : {Num(R(0))}]
  /\ out = [err |-> "pending", vals |-> <<>>, np |-> np_rng, dirichlet |-> 0,
            base_props |-> <<>>]

\* the block from wbc_key on, for a panel whose output dict is the total
\* count and the copied differential_props
PropsCall ==
  /\ out.err = "pending"
  /\ out' = Differential(IF call.declares
                           THEN << <<"WBC", Some(call.total)>>,
                                   <<"differential_props", call.md>> >>
                           ELSE << <<"WBC", Some(call.total)>> >>,
                         np_rng)
  /\ np_rng' = out'.np
  /\ UNCHANGED <<py_rng, profiles, call>>

NextProps == PropsCall

SpecProps == InitProps /\ [][NextProps]_vars

-----------------------------------------------------------------------------
(* Claims about the base proportions, under SpecProps *)

\* what the mapping declares under the i-th name, the default standing in
\* for a name it lacks
DeclaredEntry(i) == Get(call.md.items, PropNames[i], Num(DefaultProps[i]))
DeclaredSum ==
  RAdd(RAdd(RAdd(RAdd(DeclaredEntry(1).v, DeclaredEntry(2).v), DeclaredEntry(3).v),
            DeclaredEntry(4).v), DeclaredEntry(5).v)
FallsBack ==
  \/ ~call.declares
  \/ call.md.kind # "dict"
  \/ \E i \in 1 .. 5 : DeclaredEntry(i).kind # "num"
  \/ RLe(DeclaredSum, R(0))

\* C21: the base proportions of the reconciliation are the defaults
\* 0.55/0.30/0.06/0.07/0.02 whenever differential_props is absent, is not a
\* mapping, holds an entry that is not a number, or sums to zero or less;
\* otherwise they are the five declared proportions.
C21_BasePropsFallBack ==
  (call.op = "differential" /\ out.err # "pending")
  => IF FallsBack
       THEN out.base_props = DefaultProps
       ELSE \A i \in 1 .. 5 : SameNumber(out.base_props[i], DeclaredEntry(i).v)

\* a mapping that sums to less than zero: the defaults are used and the
\* proportions are drawn
C21_Witness ==
  /\ call.op = "differential" /\ out.err = ""
  /\ call.declares /\ call.md.kind = "dict"
  /\ \A i \in 1 .. 5 : DeclaredEntry(i).kind = "num"
  /\ RLt(DeclaredSum, R(0))
  /\ out.base_props = DefaultProps
  /\ out.dirichlet = 1

=============================================================================
